---- MODULE Spec2Model ----
(***************************************************************************)
(* State-machine model of the two bindings of flet-extension:              *)
(*   FletExtension         (flet_extension.py, the visual control)         *)
(*   FletServiceExtension  (flet_service_extension.py, the service)        *)
(* and of the request/response invoker (_invoke_method) that both use.     *)
(*                                                                         *)
(* Python values are tagged records [kind, text] so that None, strings,    *)
(* integers and floats stay distinguishable (str(7) is the string "7",     *)
(* not the integer 7).                                                     *)
(***************************************************************************)
EXTENDS Integers, Sequences, FiniteSets, TLC

VARIABLES
    ctl,        \* FletExtension: the properties of the control
    svc,        \* FletServiceExtension: the properties of the service
    attached,   \* whether the bridge channel to the runtime is established
    nops,       \* number of operations the application has called so far
    calls,      \* the invocations that reached the invoker, in sending order
    waiters,    \* invoker: the pending-result slots, one per outstanding request
    late,       \* ids of the requests that timed out, response still to come
    ready,      \* event loop: detached tasks created and not yet started (FIFO)
    ev,         \* what the last step did (the operation, its outcome, what it sent)
    nsets       \* number of property assignments the application has made

vars == <<ctl, svc, attached, nops, calls, waiters, late, ready, ev, nsets>>

-----------------------------------------------------------------------------
(* Bounds of the model *)

MaxOps == 2

MaxSets == 1

-----------------------------------------------------------------------------
(* Python values *)

Null == [kind |-> "none", text |-> ""]

PStr(s) == [kind |-> "str", text |-> s]

PInt(s) == [kind |-> "int", text |-> s]

PFloat(s) == [kind |-> "float", text |-> s]

PBool(s) == [kind |-> "bool", text |-> s]

\* str(v) for the values of the model: the decimal text of a number, the
\* string itself for a string
PyStr(v) == [kind |-> "str", text |-> v.text]

\* Animation(duration=Duration(milliseconds=ms), curve=curve)
Animation(ms, curve) == [kind |-> "animation", duration |-> ms, curve |-> curve]

NoAnimation == [kind |-> "none", duration |-> 0, curve |-> ""]

\* a number of seconds, held in microseconds
Seconds(us) == [kind |-> "float", us |-> us]

NoDuration == [kind |-> "none", us |-> 0]

EASE_IN_OUT == "easeInOut"

NoCurve == ""

Range(f) == {f[i] : i \in DOMAIN f}

-----------------------------------------------------------------------------
(* Inputs the application passes *)

\* animation_type arguments: the first and the last supported name, and one
\* that is not supported
AnimationTypeArgs == {"fade", "rotate", "bounce"}

\* custom_animation arguments: None, or a descriptor of the application
GivenAnimation == Animation(250, "linear")

CustomAnimationArgs == {NoAnimation, GivenAnimation}

\* src arguments: None, and a non-string that str() converts
SrcArgs == {Null, PInt("7")}

TitleArgs == {Null, PStr("T")}

SubtitleArgs == {Null, PStr("S")}

\* values the application assigns to animation_duration: 0.5 s, 0.0015 s
\* (1.5 ms) and None
DurationValues == {Seconds(500000), Seconds(1500), NoDuration}

\* values the application assigns to animation_curve
CurveValues == {"linear", NoCurve}

\* timeout arguments: the default of every operation, 10 seconds
DefaultTimeout == PInt("10")

TimeoutArgs == {DefaultTimeout}

\* custom_interval arguments
CustomIntervalArgs == {Null, PInt("0")}

\* interval and max_count arguments of set_configuration
IntervalArgs == {Null, PFloat("0.0")}

MaxCountArgs == {Null, PInt("0"), PInt("5")}

-----------------------------------------------------------------------------
(* Construction *)

\* FletExtension(): every property at its default
ControlDefaults ==
    [src |-> Null, title |-> Null, subtitle |-> Null,
     animation_type |-> Null,
     animation_duration |-> Seconds(1000000),
     animation_curve |-> EASE_IN_OUT,
     custom_animation |-> NoAnimation,
     clickable |-> TRUE]

\* FletServiceExtension(): every property at its default
ServiceDefaults ==
    [auto_start |-> FALSE, interval |-> PFloat("1.0"), max_count |-> PInt("10"),
     on_status_change |-> Null, on_counter_update |-> Null, on_error |-> Null]

-----------------------------------------------------------------------------
(* Invocations and events *)

\* an empty argument mapping
NoArguments == [k \in {} |-> Null]

\* one call of _invoke_method(method_name, arguments, timeout)
Invocation(method, arguments, timeout) ==
    [method |-> method, arguments |-> arguments, timeout |-> timeout]

\* What a step did. kind: "call" (the application called an operation),
\* "start" (the loop started a detached task), "end" (a remote call ended and
\* its caller resumed), "late", "set", "attach". status is the outcome for
\* the caller of the operation: "waiting" (suspended in the remote call),
\* "returned" or "raised". task is the state of the detached task of a
\* fire-and-forget form. sent holds the invocation that reached the invoker in
\* this step, dropped the coroutine that was created and never awaited.
NoEvent ==
    [kind |-> "none", o |-> 0, form |-> "", op |-> "", args |-> NoArguments,
     status |-> "", error |-> "none", result |-> Null, diag |-> FALSE,
     task |-> "none", sent |-> << >>, dropped |-> << >>]

CallEvent(o, form, name, args) ==
    [NoEvent EXCEPT !.kind = "call", !.o = o, !.form = form, !.op = name, !.args = args]

\* the pending-result slot of request rid, and who waits on it
Waiter(rid, form, name, timeout) ==
    [rid |-> rid, form |-> form, op |-> name, timeout |-> timeout]

-----------------------------------------------------------------------------
(* The invoker (_invoke_method of the framework's base class): it sends    *)
(* the call, registers a pending-result slot under the request id and      *)
(* suspends the caller until the response or the timeout. With no channel  *)
(* it fails at once. The request id of an operation's call is the          *)
(* operation's number.                                                     *)

\* await self._invoke_method(...) by operation o
Invoke(o, form, name, inv) ==
    /\ calls' = Append(calls, [o |-> o, form |-> form])
    /\ waiters' = IF attached
                  THEN waiters \cup {Waiter(o, form, name, inv.timeout)}
                  ELSE waiters

\* the failure the invoker signals when there is no channel
InvokeFailure == IF attached THEN "none" ELSE "RemoteUnavailable"

-----------------------------------------------------------------------------
(* FletExtension.trigger_animation_async / trigger_animation *)

valid_types == <<"fade", "scale", "slide", "rotate">>

\* a slip: round(self.animation_duration * 1000)
DurationMilliseconds_Rounded(d) == (d.us + 500) \div 1000

\* int(self.animation_duration * 1000): int() drops the fraction of the
\* product. The durations used (1.0, 0.5, 0.0015) have a product with 1000
\* that Python's float arithmetic gives exactly (1000.0, 500.0, 1.5).
DurationMilliseconds(d) == d.us \div 1000

\* Animation(duration=Duration(milliseconds=...),
\*           curve=self.animation_curve or AnimationCurve.EASE_IN_OUT)
SynthesizedAnimation(c) ==
    Animation(DurationMilliseconds(c.animation_duration),
              IF c.animation_curve # NoCurve THEN c.animation_curve ELSE EASE_IN_OUT)

\* a slip: the descriptor is synthesized and stored before the type is checked
TriggerAnimationLocal_StoreFirst(c, animation_type, custom_animation) ==
    LET stored == [c EXCEPT !.custom_animation =
                       IF custom_animation = NoAnimation
                       THEN SynthesizedAnimation(c)
                       ELSE custom_animation]
    IN  IF animation_type \notin Range(valid_types)
        THEN [raised |-> "ValueError", ctl |-> stored]
        ELSE [raised |-> "none", ctl |-> stored]

\* trigger_animation_async up to the remote call: validation, synthesis of the
\* descriptor and the write of custom_animation; None * 1000 raises TypeError
\* before anything is written
TriggerAnimationLocal(c, animation_type, custom_animation) ==
    IF animation_type \notin Range(valid_types)
    THEN [raised |-> "ValueError", ctl |-> c]
    ELSE IF custom_animation = NoAnimation /\ c.animation_duration = NoDuration
    THEN [raised |-> "TypeError", ctl |-> c]
    ELSE [raised |-> "none",
          ctl |-> [c EXCEPT !.custom_animation =
                       IF custom_animation = NoAnimation
                       THEN SynthesizedAnimation(c)
                       ELSE custom_animation]]

\* trigger_animation (the synchronous form) up to the remote call: the same
\* statements, written a second time
TriggerAnimationSyncLocal(c, animation_type, custom_animation) ==
    IF animation_type \notin Range(valid_types)
    THEN [raised |-> "ValueError", ctl |-> c]
    ELSE IF custom_animation = NoAnimation /\ c.animation_duration = NoDuration
    THEN [raised |-> "TypeError", ctl |-> c]
    ELSE [raised |-> "none",
          ctl |-> [c EXCEPT !.custom_animation =
                       IF custom_animation = NoAnimation
                       THEN SynthesizedAnimation(c)
                       ELSE custom_animation]]

\* _invoke_method("trigger_animation", {"animation_type": animation_type})
TriggerAnimationInvocation(animation_type) ==
    Invocation("trigger_animation", [animation_type |-> PStr(animation_type)],
               DefaultTimeout)

\* the same call as the synchronous form writes it
TriggerAnimationSyncInvocation(animation_type) ==
    Invocation("trigger_animation", [animation_type |-> PStr(animation_type)],
               DefaultTimeout)

-----------------------------------------------------------------------------
(* FletExtension.update_content_async / update_content *)

\* a slip: the values are stored as given, without str()
UpdateContentLocal_NoCoercion(c, src, title, subtitle) ==
    [c EXCEPT !.src = IF src # Null THEN src ELSE @,
              !.title = IF title # Null THEN title ELSE @,
              !.subtitle = IF subtitle # Null THEN subtitle ELSE @]

\* if x is not None: self.x = str(x), for src, title and subtitle
UpdateContentLocal(c, src, title, subtitle) ==
    [c EXCEPT !.src = IF src # Null THEN PyStr(src) ELSE @,
              !.title = IF title # Null THEN PyStr(title) ELSE @,
              !.subtitle = IF subtitle # Null THEN PyStr(subtitle) ELSE @]

\* the same statements in update_content (the synchronous form)
UpdateContentSyncLocal(c, src, title, subtitle) ==
    [c EXCEPT !.src = IF src # Null THEN PyStr(src) ELSE @,
              !.title = IF title # Null THEN PyStr(title) ELSE @,
              !.subtitle = IF subtitle # Null THEN PyStr(subtitle) ELSE @]

\* a slip: only the arguments that are not None are put in the mapping
UpdateContentInvocation_OmitNulls(src, title, subtitle) ==
    LET given == [src |-> src, title |-> title, subtitle |-> subtitle]
    IN  Invocation("update_content",
                   [k \in {f \in {"src", "title", "subtitle"} : given[f] # Null} |-> given[k]],
                   DefaultTimeout)

\* _invoke_method("update_content", {"src": src, "title": title,
\* "subtitle": subtitle}): the arguments as given, None included
UpdateContentInvocation(src, title, subtitle) ==
    Invocation("update_content", [src |-> src, title |-> title, subtitle |-> subtitle],
               DefaultTimeout)

\* the same call as the synchronous form writes it
UpdateContentSyncInvocation(src, title, subtitle) ==
    Invocation("update_content", [src |-> src, title |-> title, subtitle |-> subtitle],
               DefaultTimeout)

-----------------------------------------------------------------------------
(* FletExtension: the operations *)

\* except Exception as e: print(f"Debug: ..."); raise
ControlDiagnostic == TRUE

\* the event of a suspending form that reached its remote call: the caller is
\* suspended, or the invoker failed at once and the except block ran
AwaitEvent(e, inv, diag) ==
    IF InvokeFailure = "none"
    THEN [e EXCEPT !.status = "waiting", !.sent = <<inv>>]
    ELSE [e EXCEPT !.status = "raised", !.error = InvokeFailure, !.diag = diag,
                   !.sent = <<inv>>]

\* await ext.trigger_animation_async(animation_type, custom_animation), up to
\* the suspension in the remote call
TriggerAnimationAsync(animation_type, custom_animation) ==
    LET loc == TriggerAnimationLocal(ctl, animation_type, custom_animation)
        inv == TriggerAnimationInvocation(animation_type)
        e == CallEvent(nops + 1, "async", "trigger_animation",
                       [animation_type |-> animation_type,
                        custom_animation |-> custom_animation])
    IN  /\ nops < MaxOps
        /\ nops' = nops + 1
        /\ ctl' = loc.ctl
        /\ IF loc.raised # "none"
           THEN /\ ev' = [e EXCEPT !.status = "raised", !.error = loc.raised]
                /\ UNCHANGED <<calls, waiters>>
           ELSE /\ Invoke(nops + 1, "async", "trigger_animation", inv)
                /\ ev' = AwaitEvent(e, inv, ControlDiagnostic)
        /\ UNCHANGED <<svc, attached, late, ready, nsets>>

\* ext.trigger_animation(animation_type, custom_animation): the coroutine that
\* self._invoke_method(...) returns is not awaited, so its body never runs and
\* the try block cannot raise
TriggerAnimationSync(animation_type, custom_animation) ==
    LET loc == TriggerAnimationSyncLocal(ctl, animation_type, custom_animation)
        inv == TriggerAnimationSyncInvocation(animation_type)
        e == CallEvent(nops + 1, "sync", "trigger_animation",
                       [animation_type |-> animation_type,
                        custom_animation |-> custom_animation])
    IN  /\ nops < MaxOps
        /\ nops' = nops + 1
        /\ ctl' = loc.ctl
        /\ ev' = IF loc.raised # "none"
                 THEN [e EXCEPT !.status = "raised", !.error = loc.raised]
                 ELSE [e EXCEPT !.status = "returned", !.dropped = <<inv>>]
        /\ UNCHANGED <<svc, attached, calls, waiters, late, ready, nsets>>

\* await ext.update_content_async(src, title, subtitle), up to the suspension
UpdateContentAsync(src, title, subtitle) ==
    LET inv == UpdateContentInvocation(src, title, subtitle)
        e == CallEvent(nops + 1, "async", "update_content",
                       [src |-> src, title |-> title, subtitle |-> subtitle])
    IN  /\ nops < MaxOps
        /\ nops' = nops + 1
        /\ ctl' = UpdateContentLocal(ctl, src, title, subtitle)
        /\ Invoke(nops + 1, "async", "update_content", inv)
        /\ ev' = AwaitEvent(e, inv, ControlDiagnostic)
        /\ UNCHANGED <<svc, attached, late, ready, nsets>>

\* ext.update_content(src, title, subtitle): the coroutine is not awaited
UpdateContentSync(src, title, subtitle) ==
    LET inv == UpdateContentSyncInvocation(src, title, subtitle)
        e == CallEvent(nops + 1, "sync", "update_content",
                       [src |-> src, title |-> title, subtitle |-> subtitle])
    IN  /\ nops < MaxOps
        /\ nops' = nops + 1
        /\ ctl' = UpdateContentSyncLocal(ctl, src, title, subtitle)
        /\ ev' = [e EXCEPT !.status = "returned", !.dropped = <<inv>>]
        /\ UNCHANGED <<svc, attached, calls, waiters, late, ready, nsets>>

\* the application assigns a property of the control directly
SetControlProperty(name, value) ==
    /\ nsets < MaxSets
    /\ nsets' = nsets + 1
    /\ ctl' = [ctl EXCEPT ![name] = value]
    /\ ev' = [NoEvent EXCEPT !.kind = "set", !.op = name]
    /\ UNCHANGED <<svc, attached, nops, calls, waiters, late, ready>>

-----------------------------------------------------------------------------
(* FletServiceExtension: the arguments of the remote calls *)

\* {"interval": custom_interval if custom_interval is not None else self.interval}
\* values that are false in a Python condition
Falsy == {Null, PInt("0"), PFloat("0.0")}

\* a slip: "custom_interval or self.interval"
StartServiceArguments_Truthy(s, custom_interval) ==
    [interval |-> IF custom_interval \notin Falsy THEN custom_interval ELSE s.interval]

StartServiceArguments(s, custom_interval) ==
    [interval |-> IF custom_interval # Null THEN custom_interval ELSE s.interval]

\* a slip: "if interval:" instead of "if interval is not None:"
SetConfigurationArguments_Truthy(interval, max_count) ==
    LET keys == (IF interval \notin Falsy THEN {"interval"} ELSE {})
                \cup (IF max_count \notin Falsy THEN {"max_count"} ELSE {})
    IN  [k \in keys |-> IF k = "interval" THEN interval ELSE max_count]

\* config = {}; a key is added for each argument that is not None
SetConfigurationArguments(interval, max_count) ==
    LET keys == (IF interval # Null THEN {"interval"} ELSE {})
                \cup (IF max_count # Null THEN {"max_count"} ELSE {})
    IN  [k \in keys |-> IF k = "interval" THEN interval ELSE max_count]

\* {"event_name": event_name, "data": data}
TriggerCustomEventArguments(event_name, data) ==
    [event_name |-> event_name, data |-> data]

\* the operations that take only a timeout and pass no arguments
PlainOps == {"stop_service", "pause_service", "get_status", "get_counter", "reset_counter"}

SuspendingOps == PlainOps \cup {"start_service", "set_configuration", "trigger_custom_event"}

\* the operations that also have a fire-and-forget form
FireAndForgetOps == {"start_service", "stop_service", "pause_service", "reset_counter"}

\* the call the suspending form of operation name makes, from its parameters p
\* and the properties s at the time its body runs
ServiceInvocation(s, name, p) ==
    Invocation(name,
               CASE name = "start_service" -> StartServiceArguments(s, p.custom_interval)
                 [] name = "set_configuration" ->
                        SetConfigurationArguments(p.interval, p.max_count)
                 [] name = "trigger_custom_event" ->
                        TriggerCustomEventArguments(p.event_name, p.data)
                 [] OTHER -> NoArguments,
               p.timeout)

\* the parameters the application can pass to each operation
ParamsOf(name) ==
    CASE name = "start_service" ->
             [custom_interval : CustomIntervalArgs, timeout : TimeoutArgs]
      [] name = "set_configuration" ->
             [interval : IntervalArgs, max_count : MaxCountArgs,
              timeout : {DefaultTimeout}]
      [] name = "trigger_custom_event" ->
             [event_name : {PStr("ping")}, data : {[kind |-> "dict", text |-> "{}"]},
              timeout : {DefaultTimeout}]
      [] OTHER -> [timeout : {DefaultTimeout}]

-----------------------------------------------------------------------------
(* FletServiceExtension: the operations *)

\* the suspending forms have no try/except: nothing is printed on failure
ServiceDiagnostic == FALSE

\* a slip: set_configuration_async mirrors what it sends, as update_content does
ServiceLocal_MirrorConfiguration(s, name, p) ==
    IF name = "set_configuration"
    THEN [s EXCEPT !.interval = IF p.interval # Null THEN p.interval ELSE @,
                   !.max_count = IF p.max_count # Null THEN p.max_count ELSE @]
    ELSE s

\* the properties of the service once the body of <name>_async has run up to
\* its remote call: no body assigns to self
ServiceLocal(s, name, p) == s

\* await svc.<name>_async(...), up to the suspension in the remote call
ServiceAsync(name, p) ==
    LET inv == ServiceInvocation(svc, name, p)
    IN  /\ nops < MaxOps
        /\ nops' = nops + 1
        /\ svc' = ServiceLocal(svc, name, p)
        /\ Invoke(nops + 1, "async", name, inv)
        /\ ev' = AwaitEvent(CallEvent(nops + 1, "async", name, p), inv, ServiceDiagnostic)
        /\ UNCHANGED <<ctl, attached, late, ready, nsets>>

\* a slip: the newest task runs first
Schedule_Front(queue, task) == <<task>> \o queue

\* asyncio.create_task(coro): the task goes to the end of the loop's queue
Schedule(queue, task) == Append(queue, task)

\* a slip: the synchronous form runs the call itself and waits for it
ServiceFireAndForget_Awaited(name, p) ==
    LET inv == ServiceInvocation(svc, name, p)
    IN  /\ nops < MaxOps
        /\ nops' = nops + 1
        /\ Invoke(nops + 1, "fire_and_forget", name, inv)
        /\ ev' = AwaitEvent(CallEvent(nops + 1, "fire_and_forget", name, p), inv,
                            ServiceDiagnostic)
        /\ UNCHANGED <<ctl, svc, attached, late, ready, nsets>>

\* a slip: start_service reads self.interval itself and hands it to the task
ServiceFireAndForget_EagerInterval(name, p) ==
    LET q == IF name = "start_service" /\ p.custom_interval = Null
             THEN [p EXCEPT !.custom_interval = svc.interval]
             ELSE p
    IN  /\ nops < MaxOps
        /\ nops' = nops + 1
        /\ ready' = Schedule(ready, [o |-> nops + 1, op |-> name, args |-> q])
        /\ ev' = [CallEvent(nops + 1, "fire_and_forget", name, p) EXCEPT
                      !.status = "returned", !.task = "created"]
        /\ UNCHANGED <<ctl, svc, attached, calls, waiters, late, nsets>>

\* svc.<name>(...): asyncio.create_task(self.<name>_async(...)); the task
\* object is dropped and the method returns None
ServiceFireAndForget(name, p) ==
    /\ nops < MaxOps
    /\ nops' = nops + 1
    /\ ready' = Schedule(ready, [o |-> nops + 1, op |-> name, args |-> p])
    /\ ev' = [CallEvent(nops + 1, "fire_and_forget", name, p) EXCEPT
                  !.status = "returned", !.task = "created"]
    /\ UNCHANGED <<ctl, svc, attached, calls, waiters, late, nsets>>

\* the event loop starts the oldest detached task: the body of <name>_async
\* runs up to the suspension in the remote call; a failure stays in the task
RunTask ==
    /\ ready # << >>
    /\ LET t == Head(ready)
           inv == ServiceInvocation(svc, t.op, t.args)
       IN  /\ Invoke(t.o, "fire_and_forget", t.op, inv)
           /\ ev' = [NoEvent EXCEPT !.kind = "start", !.o = t.o,
                         !.form = "fire_and_forget", !.op = t.op, !.args = t.args,
                         !.status = "returned", !.sent = <<inv>>,
                         !.task = IF InvokeFailure = "none" THEN "waiting" ELSE "failed"]
    /\ svc' = ServiceLocal(svc, Head(ready).op, Head(ready).args)
    /\ ready' = Tail(ready)
    /\ UNCHANGED <<ctl, attached, nops, late, nsets>>

\* the application assigns a property of the service directly
SetServiceProperty(name, value) ==
    /\ nsets < MaxSets
    /\ nsets' = nsets + 1
    /\ svc' = [svc EXCEPT ![name] = value]
    /\ ev' = [NoEvent EXCEPT !.kind = "set", !.op = name]
    /\ UNCHANGED <<ctl, attached, nops, calls, waiters, late, ready>>

-----------------------------------------------------------------------------
(* The end of a remote call: the suspended caller resumes *)

ControlOps == {"trigger_animation", "update_content"}

\* values the runtime returns
RuntimeResults == {PBool("true")}

\* the caller of the request of slot w, about to resume
EndEvent(w) ==
    [NoEvent EXCEPT !.kind = "end", !.o = w.rid, !.form = w.form, !.op = w.op]

\* try: return await self._invoke_method(...)
\* except Exception as e: print(...); raise
ControlResume(e, outcome, result) ==
    IF outcome = "ok"
    THEN [e EXCEPT !.status = "returned", !.result = result]
    ELSE [e EXCEPT !.status = "raised", !.error = outcome, !.diag = ControlDiagnostic]

\* a slip: the except block restores the mirrored properties
ControlAfterCall_Rollback(c, outcome) ==
    IF outcome = "ok" THEN c
    ELSE [c EXCEPT !.custom_animation = NoAnimation, !.src = Null,
                   !.title = Null, !.subtitle = Null]

\* the properties of the control after its remote call ended: the except
\* block prints and re-raises, nothing is written
ControlAfterCall(c, outcome) == c

\* a slip: a timeout is turned into the result False
ServiceResume_SwallowTimeout(e, outcome, result) ==
    IF outcome = "ok"
    THEN [e EXCEPT !.status = "returned", !.result = result]
    ELSE IF outcome = "RemoteTimeout"
    THEN [e EXCEPT !.status = "returned", !.result = PBool("false")]
    ELSE [e EXCEPT !.status = "raised", !.error = outcome, !.diag = ServiceDiagnostic]

\* return await self._invoke_method(...)
ServiceResume(e, outcome, result) ==
    IF outcome = "ok"
    THEN [e EXCEPT !.status = "returned", !.result = result]
    ELSE [e EXCEPT !.status = "raised", !.error = outcome, !.diag = ServiceDiagnostic]

\* the properties of the service after a remote call ended: no operation of
\* the service assigns a property
ServiceAfterCall(s, outcome) == s

\* the detached task of a fire-and-forget form ends: its result or exception
\* stays in the task object, which nobody holds; the caller returned long ago
TaskResume(e, outcome, result) ==
    [e EXCEPT !.status = "returned",
              !.task = IF outcome = "ok" THEN "finished" ELSE "failed"]

\* the caller of the request of slot w resumes with outcome
Complete(w, outcome, result) ==
    /\ ev' = IF w.form = "fire_and_forget" THEN TaskResume(EndEvent(w), outcome, result)
             ELSE IF w.op \in ControlOps THEN ControlResume(EndEvent(w), outcome, result)
             ELSE ServiceResume(EndEvent(w), outcome, result)
    /\ ctl' = IF w.op \in ControlOps THEN ControlAfterCall(ctl, outcome) ELSE ctl
    /\ svc' = IF w.op \in ControlOps THEN svc ELSE ServiceAfterCall(svc, outcome)

\* the runtime answers the request of slot w with a result
RuntimeReturns(w, result) ==
    /\ waiters' = waiters \ {w}
    /\ Complete(w, "ok", result)
    /\ UNCHANGED <<attached, nops, calls, late, ready, nsets>>

\* the runtime answers the request of slot w with an error
RuntimeFails(w) ==
    /\ waiters' = waiters \ {w}
    /\ Complete(w, "RemoteInvocationError", Null)
    /\ UNCHANGED <<attached, nops, calls, late, ready, nsets>>

\* the timeout of the request of slot w elapses: the slot is removed and the
\* caller resumes with the timeout error; the runtime may still answer later
TimeoutElapses(w) ==
    /\ w.timeout # Null
    /\ waiters' = waiters \ {w}
    /\ late' = late \cup {w.rid}
    /\ Complete(w, "RemoteTimeout", Null)
    /\ UNCHANGED <<attached, nops, calls, ready, nsets>>

\* the response to a timed-out request arrives: no slot is registered under
\* its id, the invoker drops it
LateResponse(l) ==
    /\ late' = late \ {l}
    /\ ev' = [NoEvent EXCEPT !.kind = "late", !.o = l]
    /\ UNCHANGED <<ctl, svc, attached, nops, calls, waiters, ready, nsets>>

\* the control or service is added to a page: the channel exists from now on
Attach ==
    /\ ~attached
    /\ attached' = TRUE
    /\ ev' = [NoEvent EXCEPT !.kind = "attach"]
    /\ UNCHANGED <<ctl, svc, nops, calls, waiters, late, ready, nsets>>

-----------------------------------------------------------------------------
(* Specifications *)

Init ==
    /\ ctl = ControlDefaults
    /\ svc = ServiceDefaults
    /\ attached = FALSE
    /\ nops = 0
    /\ calls = << >>
    /\ waiters = {}
    /\ late = {}
    /\ ready = << >>
    /\ ev = NoEvent
    /\ nsets = 0

\* the runtime and the clock
Environment ==
    \/ \E w \in waiters : \E result \in RuntimeResults : RuntimeReturns(w, result)
    \/ \E w \in waiters : RuntimeFails(w)
    \/ \E w \in waiters : TimeoutElapses(w)
    \/ \E l \in late : LateResponse(l)
    \/ Attach

\* an application that uses a FletExtension control
Next ==
    \/ \E t \in AnimationTypeArgs, a \in CustomAnimationArgs : TriggerAnimationAsync(t, a)
    \/ \E t \in AnimationTypeArgs, a \in CustomAnimationArgs : TriggerAnimationSync(t, a)
    \/ \E s \in SrcArgs, t \in TitleArgs, u \in SubtitleArgs : UpdateContentAsync(s, t, u)
    \/ \E s \in SrcArgs, t \in TitleArgs, u \in SubtitleArgs : UpdateContentSync(s, t, u)
    \/ \E d \in DurationValues : SetControlProperty("animation_duration", d)
    \/ \E c \in CurveValues : SetControlProperty("animation_curve", c)
    \/ Environment

Spec == Init /\ [][Next]_vars

\* an application that uses a FletServiceExtension service
NextService ==
    \/ \E name \in SuspendingOps : \E p \in ParamsOf(name) : ServiceAsync(name, p)
    \/ \E name \in FireAndForgetOps : \E p \in ParamsOf(name) : ServiceFireAndForget(name, p)
    \/ RunTask
    \/ SetServiceProperty("interval", PFloat("2.5"))
    \/ SetServiceProperty("max_count", PInt("3"))
    \/ Environment

SpecService == Init /\ [][NextService]_vars

-----------------------------------------------------------------------------
(* Claims *)

\* the step is a call of trigger_animation(_async) with an unsupported type
InvalidTriggerStep ==
    /\ ev'.kind = "call"
    /\ ev'.op = "trigger_animation"
    /\ ev'.args.animation_type \notin {"fade", "scale", "slide", "rotate"}

\* C1: an animation_type outside {fade, scale, slide, rotate} makes
\* trigger_animation, in both forms, fail with the invalid-argument error
\* (ValueError) before any remote call: nothing reaches the invoker, no
\* coroutine is even created, and every property of the control, the mirrored
\* custom_animation included, keeps its value.
C1_InvalidTypeRejected ==
    [][InvalidTriggerStep =>
          /\ ev'.status = "raised"
          /\ ev'.error = "ValueError"
          /\ ev'.sent = << >>
          /\ ev'.dropped = << >>
          /\ calls' = calls
          /\ waiters' = waiters
          /\ ctl' = ctl]_vars

\* both forms have rejected a type while a given descriptor was passed
C1_Witness ==
    /\ ev.kind = "call"
    /\ ev.op = "trigger_animation"
    /\ ev.form = "sync"
    /\ ev.args.animation_type = "bounce"
    /\ ev.args.custom_animation = GivenAnimation
    /\ ev.error = "ValueError"
    /\ nops = 2
    /\ calls = << >>

\* what the suspending form of the operation of a call step does to the
\* control from the state before the step
SuspendingLocal(name, a) ==
    IF name = "trigger_animation"
    THEN TriggerAnimationLocal(ctl, a.animation_type, a.custom_animation)
    ELSE [raised |-> "none", ctl |-> UpdateContentLocal(ctl, a.src, a.title, a.subtitle)]

\* the invocation the suspending form makes for the same arguments
SuspendingInvocation(name, a) ==
    IF name = "trigger_animation"
    THEN TriggerAnimationInvocation(a.animation_type)
    ELSE UpdateContentInvocation(a.src, a.title, a.subtitle)

\* C2: the synchronous forms trigger_animation and update_content leave the
\* same local state and cause the same remote call (method and arguments) as
\* trigger_animation_async and update_content_async do for the same input
\* from the same state.
C2_SyncSameAsSuspending ==
    [][(ev'.kind = "call" /\ ev'.form = "sync") =>
          /\ ctl' = SuspendingLocal(ev'.op, ev'.args).ctl
          /\ ev'.error = SuspendingLocal(ev'.op, ev'.args).raised
          /\ ev'.sent = IF SuspendingLocal(ev'.op, ev'.args).raised = "none"
                        THEN <<SuspendingInvocation(ev'.op, ev'.args)>>
                        ELSE << >>]_vars

\* the failures of a remote call
Failures == {"RemoteTimeout", "RemoteInvocationError", "RemoteUnavailable"}

\* C3: every forwarding operation of the control, in both forms, surfaces a
\* failure of its remote call: a failure ends the operation in an error after
\* a diagnostic, and the operation ends as a success only with the result of
\* a remote call that succeeded.
C3_RemoteFailureSurfaced ==
    ev.op \in ControlOps /\ ev.kind \in {"call", "end"} =>
        /\ ev.error \in Failures => ev.status = "raised" /\ ev.diag
        /\ ev.status = "returned" => ev.kind = "end"

\* the step is a call of a forwarding operation of the control that got
\* past its local part (the invocation was built)
ForwardingStep(name) ==
    /\ ev'.kind = "call"
    /\ ev'.op = name
    /\ ev'.sent # << >> \/ ev'.dropped # << >>

ContentFields == {"src", "title", "subtitle"}

\* C7: the mirrored writes of a forwarding operation of the control are not
\* rolled back. Once trigger_animation with a valid type has reached its
\* remote call, custom_animation holds the given descriptor, or the one
\* synthesized from animation_duration and animation_curve; once
\* update_content has, the mirrors of its non-null arguments hold their string
\* forms; and the end of the remote call (result, timeout or error) leaves
\* every property of the control as it was.
C7_NoRollback ==
    [][/\ ForwardingStep("trigger_animation") =>
              ctl'.custom_animation =
                  IF ev'.args.custom_animation = NoAnimation
                  THEN SynthesizedAnimation(ctl)
                  ELSE ev'.args.custom_animation
       /\ ForwardingStep("update_content") =>
              \A f \in ContentFields :
                  ev'.args[f] # Null => ctl'[f] = PStr(ev'.args[f].text)
       /\ (ev'.kind = "end" /\ ev'.op \in ControlOps) => ctl' = ctl]_vars

\* the remote call of trigger_animation_async timed out and the descriptor
\* synthesized from the default duration is still stored
C7_Witness ==
    /\ ev.kind = "end"
    /\ ev.op = "trigger_animation"
    /\ ev.error = "RemoteTimeout"
    /\ ctl.custom_animation = Animation(1000, EASE_IN_OUT)

\* C8: update_content, in both forms, writes the mirror of exactly the
\* arguments that are not null: src, title and subtitle each become the string
\* form of their argument, in the step that issues the remote call and so
\* before any response, or keep their value when the argument is null; no
\* other property of the control, and none of the service, changes.
C8_MirrorsOfNonNullArguments ==
    [][(ev'.kind = "call" /\ ev'.op = "update_content") =>
          /\ \A f \in ContentFields :
                 ctl'[f] = IF ev'.args[f] # Null
                           THEN PStr(ev'.args[f].text)
                           ELSE ctl[f]
          /\ \A f \in DOMAIN ctl \ ContentFields : ctl'[f] = ctl[f]
          /\ svc' = svc]_vars

\* update_content_async(src=7) is waiting for its response: src already holds
\* the string "7" and the title set by an earlier call is kept
C8_Witness ==
    /\ ev.kind = "call"
    /\ ev.op = "update_content"
    /\ ev.form = "async"
    /\ ev.status = "waiting"
    /\ ev.args = [src |-> PInt("7"), title |-> Null, subtitle |-> Null]
    /\ ctl.src = PStr("7")
    /\ ctl.title = PStr("T")
    /\ ctl.subtitle = Null

C4_SentInProgramOrder ==
    /\ \A i, j \in DOMAIN calls : i < j => calls[i].o < calls[j].o
    /\ \A i \in DOMAIN calls, k \in DOMAIN ready : calls[i].o < ready[k].o

\* C4 (amended): a suspending form sends its call in the step in which it is
\* called, and the calls of fire-and-forget forms are sent in the order in
\* which those forms were called. So the call of A is sent before the call of
\* B, called later, whenever A is a suspending form or B is a fire-and-forget
\* form; the only calls sent out of program order are those of a suspending
\* form called after a fire-and-forget form whose task had not started.
C4_SentInOrderPerForm ==
    /\ \A i, j \in DOMAIN calls :
           (i < j /\ calls[i].o > calls[j].o) =>
               calls[i].form = "async" /\ calls[j].form = "fire_and_forget"
    /\ \A i \in DOMAIN calls, k \in DOMAIN ready :
           calls[i].o > ready[k].o => calls[i].form = "async"
    /\ \A k, l \in DOMAIN ready : k < l => ready[k].o < ready[l].o

\* start_service() was called first and stop_service_async() second, and the
\* call of the second was sent first
C4_Witness ==
    /\ Len(calls) = 2
    /\ calls[1] = [o |-> 2, form |-> "async"]
    /\ calls[2] = [o |-> 1, form |-> "fire_and_forget"]

\* C5: a fire-and-forget form returns to its caller at once: it returns
\* while its detached task has not started (the task is in the loop's queue,
\* its call has not reached the invoker and nobody waits for it), it yields no
\* result, and whatever the detached call does later, the outcome of the
\* fire-and-forget call stays "returned", with no error and no result.
C5_FireAndForgetReturnsAtOnce ==
    ev.form = "fire_and_forget" =>
        /\ ev.status = "returned"
        /\ ev.error = "none"
        /\ ev.result = Null
        /\ ev.kind = "call" =>
               /\ ev.task = "created"
               /\ \E k \in DOMAIN ready : ready[k].o = ev.o
               /\ \A i \in DOMAIN calls : calls[i].o # ev.o
               /\ \A w \in waiters : w.rid # ev.o

\* the detached call of reset_counter() failed after the method had returned
C5_Witness ==
    /\ ev.kind = "end"
    /\ ev.form = "fire_and_forget"
    /\ ev.op = "reset_counter"
    /\ ev.task = "failed"
    /\ ev.status = "returned"

\* C6: when the timeout passed to start_service_async elapses without a
\* response, the operation fails with the timeout error and its request
\* awaits a response no longer; the response that arrives after a timeout (of
\* start_service_async as of any operation) is dropped: it resumes no caller,
\* leaves the pending-result slots as they are and changes no property of the
\* service.
C6_TimeoutThenLateResponseDropped ==
    [][/\ (ev'.kind = "end" /\ ev'.op = "start_service" /\ ev'.form = "async"
             /\ late' # late) =>
              /\ ev'.status = "raised"
              /\ ev'.error = "RemoteTimeout"
              /\ ev'.o \in late'
              /\ \A w \in waiters' : w.rid # ev'.o
              /\ svc' = svc
       /\ (ev'.kind = "late") =>
              /\ ev'.o \in late
              /\ late' = late \ {ev'.o}
              /\ svc' = svc
              /\ ctl' = ctl
              /\ waiters' = waiters
              /\ ev'.status = ""]_vars

\* start_service_async, the first operation called, has failed with the
\* timeout error and the response to its request is still to come, while
\* another operation waits for its own response and the application has
\* assigned a property
C6_Witness ==
    /\ ev.kind = "end"
    /\ ev.op = "start_service"
    /\ ev.form = "async"
    /\ ev.error = "RemoteTimeout"
    /\ ev.o \in late
    /\ waiters # {}
    /\ svc # ServiceDefaults

\* C10: set_configuration sends one remote call, of method set_configuration,
\* with exactly the arguments that were supplied non-null: interval is a key of
\* the mapping iff interval is not null, max_count iff max_count is not null
\* (0 and 0.0 are sent), each key carries the value given, which is never null,
\* and with both null the mapping is empty.
C10_NonNullSubset ==
    (ev.kind = "call" /\ ev.op = "set_configuration") =>
        /\ Len(ev.sent) = 1
        /\ ev.sent[1].method = "set_configuration"
        /\ DOMAIN ev.sent[1].arguments =
               {k \in {"interval", "max_count"} : ev.args[k] # Null}
        /\ \A k \in DOMAIN ev.sent[1].arguments :
               /\ ev.sent[1].arguments[k] = ev.args[k]
               /\ ev.sent[1].arguments[k] # Null

\* set_configuration_async(interval=0.0) sent {interval: 0.0}
C10_Witness ==
    /\ ev.kind = "call"
    /\ ev.op = "set_configuration"
    /\ ev.args.interval = PFloat("0.0")
    /\ ev.args.max_count = Null
    /\ Len(ev.sent) = 1
    /\ DOMAIN ev.sent[1].arguments = {"interval"}

\* C11: start_service_async sends one remote call, of method start_service,
\* whose only argument is interval: the custom_interval given when it is not
\* null (0 included), otherwise the value the interval property has when the
\* operation is called, whatever the application assigned to it before.
C11_StartSendsInterval ==
    (ev.kind = "call" /\ ev.op = "start_service" /\ ev.form = "async") =>
        /\ Len(ev.sent) = 1
        /\ ev.sent[1].method = "start_service"
        /\ DOMAIN ev.sent[1].arguments = {"interval"}
        /\ ev.sent[1].arguments.interval =
               IF ev.args.custom_interval # Null
               THEN ev.args.custom_interval
               ELSE svc.interval

\* after interval was assigned 2.5, start_service_async() sent {interval: 2.5}
C11_Witness ==
    /\ ev.kind = "call"
    /\ ev.op = "start_service"
    /\ ev.form = "async"
    /\ ev.args.custom_interval = Null
    /\ svc.interval = PFloat("2.5")
    /\ svc.interval # ServiceDefaults.interval
    /\ ev.sent = <<Invocation("start_service", [interval |-> PFloat("2.5")],
                              DefaultTimeout)>>

C13_OperationsWriteNoProperty ==
    [][/\ ev'.kind \in {"call", "start", "end", "late"} => svc' = svc
       /\ ev'.kind = "set" =>
              \A f \in DOMAIN svc \ {ev'.op} : svc'[f] = svc[f]
       /\ (ev'.kind = "call" /\ ev'.op = "start_service" /\ ev'.form = "async"
             /\ ev'.args.custom_interval = Null) =>
              ev'.sent[1].arguments.interval = svc.interval]_vars

\* set_configuration_async has returned the runtime's result, and interval
\* and max_count are still what the application assigned and the default:
\* the values set_configuration can send (0.0; 0 and 5) are in neither
C13_Witness ==
    /\ ev.kind = "end"
    /\ ev.op = "set_configuration"
    /\ ev.form = "async"
    /\ ev.status = "returned"
    /\ ev.result = PBool("true")
    /\ svc.interval = PFloat("2.5")
    /\ svc.max_count = ServiceDefaults.max_count
    /\ svc.auto_start = ServiceDefaults.auto_start

\* C14: the fire-and-forget start_service() called without custom_interval
\* builds nothing when it is called: the detached task holds the parameters as
\* given (custom_interval still null) and no call is sent. The interval
\* argument is built when the loop first runs the task, from the value the
\* interval property has then: an assignment made between the return of
\* start_service() and the start of the task is what the remote call carries.
C14_IntervalReadWhenTaskRuns ==
    [][/\ (ev'.kind = "call" /\ ev'.form = "fire_and_forget"
             /\ ev'.op = "start_service") =>
              /\ ev'.sent = << >>
              /\ calls' = calls
              /\ ready' # << >>
              /\ ready'[Len(ready')].o = ev'.o
              /\ ready'[Len(ready')].args = ev'.args
       /\ (ev'.kind = "start" /\ ev'.op = "start_service"
             /\ ev'.args.custom_interval = Null) =>
              /\ ready # << >>
              /\ Head(ready).args.custom_interval = Null
              /\ ev'.sent = <<Invocation("start_service",
                                         [interval |-> svc.interval],
                                         ev'.args.timeout)>>
              /\ (ev.kind = "set" /\ ev.op = "interval") =>
                     ev'.sent[1].arguments.interval # ServiceDefaults.interval]_vars

\* start_service() has returned and its task is still in the loop's queue; the
\* application has just assigned 2.5 to interval: the step that runs the task
\* comes next
C14_Witness ==
    /\ ev.kind = "set"
    /\ ev.op = "interval"
    /\ svc.interval = PFloat("2.5")
    /\ ready # << >>
    /\ Head(ready).op = "start_service"
    /\ Head(ready).args.custom_interval = Null
    /\ \A i \in DOMAIN calls : calls[i].o # Head(ready).o

====
